---- MODULE Spec2Model ----
(***************************************************************************)
(* Miso.Storyboard: the transition engine of a composite storyboard with   *)
(* leaf scenes (src/src/storyboard.js) on top of jQuery-style deferreds.   *)
(*                                                                         *)
(* JavaScript runs every call to completion, and a deferred fires its      *)
(* callbacks synchronously inside resolve()/reject().  The synchronous     *)
(* continuation of the running call is kept in `agenda`: the head is the   *)
(* next piece of code to run, a callback fired by a deferred is put in     *)
(* front of it, and callers, cancellations and asynchronous completions    *)
(* only act when the agenda is empty.                                      *)
(*                                                                         *)
(* An activation that has finished and that nothing refers to any more is  *)
(* garbage: its record is blanked, so that states which differ only in     *)
(* what is unreachable are one state.  The specification for trace         *)
(* properties (keep = TRUE) retains every record and the logs.             *)
(***************************************************************************)
EXTENDS Integers, Sequences, FiniteSets, TLC

VARIABLES
  current,        \* node -> this._current (scene name, handler name or undefined)
  transitioning,  \* node -> this._transitioning
  complete,       \* node -> the deferred this._complete refers to
  att,            \* the activations of children_to / leaf_to, in creation order
  agenda,         \* the synchronous continuation of the running call
  ncalls,         \* number of API calls made so far
  last,           \* the latest API call and what it returned
  keep,           \* whether the whole history is kept (trace properties)
  budget,         \* the number of API calls the callers make at most
  started,        \* history: the nodes that completed a successful transition
  hlog,           \* history: raw handlers invoked so far, in order
  calls,          \* history: API calls made so far, in order
  events,         \* event bus: name -> this._events[name], the subscriptions
  pub,            \* event bus: the publish calls in progress, innermost first
  uid,            \* the counter behind _.uniqueId
  fired,          \* history: what the latest publish invoked, until the next bus call
  ran,            \* history: subscription -> times a subscribeOnce callback ran
  bcall,          \* history: the unsubscribe call, when it was the latest bus call
  context,        \* node -> this._context (the node itself by default)
  optcontext,     \* node -> options.context of the specification it is built from
  build           \* the constructor and attach calls still to run

\* The state of the storyboard and the state of the event bus.
sbvars == <<current, transitioning, complete, att, agenda, ncalls, last, keep,
            budget, started, hlog, calls>>

busvars == <<events, pub, uid, fired, ran, bcall>>

ctxvars == <<context, optcontext, build>>

vars == <<sbvars, busvars, ctxvars>>

\* Bound on the number of API calls (transitionTo, start, cancelTransition),
\* those made from handlers and subscribers included.
MaxCalls == 3

\* The same bound where the storyboard is driven through its composite
\* child, whose transitions take a call more to get into and out of.
MaxTreeCalls == 4

\* Bound on the number of subscribe/subscribeOnce calls made on the bus.
MaxSubs == 3

\* Bound on the depth of the publish calls callbacks make inside a publish.
MaxNested == 1

Undefined == "undefined"
Missing == "missing"

\* The storyboard under test, constructed with
\*   { initial: "A", scenes: { A: {...}, B: {...},
\*                             C: { initial: "x", scenes: { x: {...} } } } }.
\* The constructor gives a node built with scenes two more of them, "enter"
\* and "exit", whose handlers are the pass-through function; those of C
\* are the nodes "C.enter" and "C.exit" (nothing asks root for its own).
Composites == {"root", "C"}
LeafScenes == {"A", "B", "x", "C.enter", "C.exit"}
Nodes == Composites \cup LeafScenes

HANDLERS == {"enter", "exit"}

\* The names in this.scenes of node n.
scenes(n) ==
  IF n = "root" THEN {"A", "B", "C"}
  ELSE IF n = "C" THEN {"x"} \cup HANDLERS
  ELSE {}

\* The node this.scenes[s] of node n.
child(n, s) ==
  IF n = "C" /\ s = "enter" THEN "C.enter"
  ELSE IF n = "C" /\ s = "exit" THEN "C.exit"
  ELSE s

\* The leaf nodes whose handlers are function() { return true; }.
PassThrough == {"C.enter", "C.exit"}

\* The scenes callers ask root for where only leaf scenes are driven.
Flat == {"A", "B"}

initial(n) ==
  IF n = "root" THEN "A" ELSE IF n = "C" THEN "x" ELSE Undefined

\* What a raw handler returns, or passes to the completion capability.
Values == {"true", "false", "undefined"}

\* A deferred is a field of the activation that created it: its own
\* `complete` ("c"), exitComplete ("e"), enterComplete ("n").
NoDeferred == [id |-> 0, k |-> "c"]

Ref(id, k) == [id |-> id, k |-> k]

Op(o, a, n, s, d) == [op |-> o, a |-> a, n |-> n, s |-> s, d |-> d]

Call(c, n, s, a, r) == [c |-> c, n |-> n, s |-> s, a |-> a, r |-> r]

\* Event names, callbacks and priorities the bus is driven with.
Names == {"e", "f"}

Funcs == {"X", "Y", "Z"}

Priorities == {5, 10}

\* A token: "t<u>" from _.uniqueId, or the string s the caller supplied.
Tok(u, s) == [u |-> u, s |-> s]

\* A function value: the caller's function f (id = 0), or the closure
\* subscribeOnce builds around f, which holds the token "t<id>".
Fn(f, id) == [f |-> f, id |-> id]

\* The identifier given to unsubscribe, by its type.
Ident(kind, fn, tok) == [kind |-> kind, fn |-> fn, tok |-> tok]

NoIdent == Ident("undefined", Fn("", 0), Tok(0, ""))

BusCall(o, name, ident) == [op |-> o, name |-> name, ident |-> ident]

\* A fresh object with Miso.Events mixed in.
InitBus ==
  /\ events = [n \in Names |-> << >>]
  /\ pub = << >>
  /\ uid = 0
  /\ fired = << >>
  /\ ran = << >>
  /\ bcall = BusCall("", "", NoIdent)

\* Explicit contexts a specification can carry.
Contexts == {"c1", "c2"}

\* The storyboard as constructed from a specification without contexts.
Constructed ==
  /\ context = [n \in Nodes |-> n]
  /\ optcontext = [n \in Nodes |-> Undefined]
  /\ build = << >>

Init ==
  /\ current = [n \in Nodes |-> Undefined]
  /\ transitioning = [n \in Nodes |-> FALSE]
  /\ complete = [n \in Nodes |-> NoDeferred]
  /\ att = <<>>
  /\ agenda = <<>>
  /\ ncalls = 0
  /\ last = Call("", "", "", 0, "")
  /\ keep = FALSE
  /\ budget = MaxCalls
  /\ started = {}
  /\ hlog = <<>>
  /\ calls = <<>>
  /\ InitBus
  /\ Constructed


----------------------------------------------------------------------------
(* Activations and deferreds *)

IsLeaf(n) == n \in LeafScenes

\* A new activation of children_to: toScene/fromScene and the three
\* deferreds of its closure, none of them settled, no callback registered.
\* ev is history: the events this activation has published.
NewComposite(n, s, ref) ==
  [node |-> n, to |-> s, from |-> current[n], ref |-> ref, ph |-> "running",
   c |-> "pending", e |-> "pending", n |-> "pending", h |-> "none",
   eReg |-> FALSE, nReg |-> FALSE, async |-> FALSE, ev |-> << >>]

\* A new activation of leaf_to: handlerComplete is field h.
NewLeaf(n, s, ref) ==
  [node |-> n, to |-> s, from |-> Undefined, ref |-> ref, ph |-> "running",
   c |-> "pending", e |-> "none", n |-> "none", h |-> "pending",
   eReg |-> FALSE, nReg |-> FALSE, async |-> FALSE, ev |-> << >>]

\* The record of an activation that is garbage.
Collected ==
  [node |-> "", to |-> "", from |-> "", ref |-> NoDeferred, ph |-> "collected",
   c |-> "none", e |-> "none", n |-> "none", h |-> "none",
   eReg |-> FALSE, nReg |-> FALSE, async |-> FALSE, ev |-> << >>]

\* An activation is reachable while it runs, while a node's _complete or
\* the running call refers to it, and while a running activation was
\* handed one of its deferreds.
Reachable(A, C, G, i) ==
  \/ A[i].ph = "running"
  \/ \E n \in Nodes : C[n].id = i
  \/ \E k \in 1..Len(G) : G[k].a = i
  \/ \E j \in 1..Len(A) : A[j].ph = "running" /\ A[j].ref.id = i

Sweep(A) ==
  IF keep THEN A
  ELSE [i \in 1..Len(A) |->
          IF Reachable(A, complete', agenda', i) THEN A[i] ELSE Collected]

DState(A, r) == A[r.id][r.k]

\* publish(name) followed by publish(sceneName + ":" + name).
PublishOp(a, name, isExit) ==
  Op("publish", a, "", name, IF isExit THEN "from" ELSE "to")

\* success, as the callbacks' code runs: publish("enter"); the two
\* assignments; publish("end"); complete.resolve().
SuccessOps(a) ==
  << PublishOp(a, "enter", FALSE), Op("success_set", a, "", "", ""),
     PublishOp(a, "end", FALSE), Op("settle", a, "", "resolved", "") >>

\* bailout: the two assignments; publish("fail"); complete.reject().
BailoutOps(a) ==
  << Op("bail_set", a, "", "", ""), PublishOp(a, "fail", FALSE),
     Op("settle", a, "", "rejected", "") >>

\* The callbacks of a resolved exitComplete: publish("exit", true) when
\* there was a scene to leave, then toScene.to(toScene._initial || "enter").
ExitDoneOps(A, a) ==
  (IF A[a].from # Undefined THEN << PublishOp(a, "exit", TRUE) >> ELSE << >>)
  \o LET toScene == child(A[a].node, A[a].to)
     IN << Op("to", a, toScene,
              IF initial(toScene) # Undefined THEN initial(toScene) ELSE "enter",
              "n") >>

\* The enter phase started whether the exit phase succeeded or failed.
CallbacksEnterAnyway(A, r, o) ==
  IF r.k = "e" /\ A[r.id].eReg
    THEN ExitDoneOps(A, r.id)
  ELSE IF r.k = "n" /\ A[r.id].nReg
    THEN IF o = "resolved" THEN SuccessOps(r.id) ELSE BailoutOps(r.id)
  ELSE << >>

\* The callbacks a deferred fires when it settles with outcome o: those
\* registered on it so far.  Nothing is registered on an activation's own
\* `complete` inside the storyboard.
Callbacks(A, r, o) ==
  IF r.k = "e" /\ A[r.id].eReg
    THEN IF o = "resolved" THEN ExitDoneOps(A, r.id) ELSE BailoutOps(r.id)
  ELSE IF r.k = "n" /\ A[r.id].nReg
    THEN IF o = "resolved" THEN SuccessOps(r.id) ELSE BailoutOps(r.id)
  ELSE << >>

\* resolve()/reject() of a deferred: a settled deferred ignores it.
Settle(A, r, o) ==
  IF DState(A, r) = "pending" THEN [A EXCEPT ![r.id][r.k] = o] ELSE A

Fired(A, r, o) ==
  IF DState(A, r) = "pending" THEN Callbacks(A, r, o) ELSE << >>

Running == agenda # << >>

Top == Head(agenda)

Rest == Tail(agenda)

CanCall == ncalls < budget

\* History of the API calls.
LogCall(c) ==
  /\ ncalls' = ncalls + 1
  /\ last' = c
  /\ calls' = IF keep THEN Append(calls, c) ELSE calls

NoCall == UNCHANGED <<ncalls, last, calls>>

----------------------------------------------------------------------------
(* children_to *)

\* The guard left out: a call made in transition is let through.
InTransitionNever(n) == FALSE

\* "we in the middle of a transition?"
InTransition(n) == transitioning[n]

\* The head of children_to, up to the first publish: the closure is built
\* and this._complete assigned, then the scene is looked up and the
\* re-entrancy guard tested.  A missing scene throws, which unwinds the
\* whole running call; a guarded call rejects its own deferred and returns.
children_to(n, s, d, rest) ==
  LET id == Len(att) + 1
      ref == IF d = NoDeferred THEN Ref(id, "c") ELSE d
      new == NewComposite(n, s, ref)
  IN /\ complete' = [complete EXCEPT ![n] = ref]
     /\ IF s \notin scenes(n)
          THEN /\ agenda' = << >>
               /\ att' = Sweep(Append(att, [new EXCEPT !.ph = "thrown"]))
        ELSE IF InTransition(n)
          THEN LET A == Append(att, [new EXCEPT !.ph = "rejected"])
               IN /\ agenda' = Fired(A, ref, "rejected") \o rest
                  /\ att' = Sweep(Settle(A, ref, "rejected"))
        ELSE /\ agenda' = << PublishOp(id, "start", FALSE),
                             Op("set_transitioning", id, "", "", "") >> \o rest
             /\ att' = Sweep(Append(att, new))
     /\ UNCHANGED <<current, transitioning, hlog>>

\* leaf_to: the flag and this._complete are assigned, handlerComplete gets
\* its two callbacks, and the wrapped handler is invoked.
leaf_to(n, s, d, rest) ==
  LET id == Len(att) + 1
      ref == IF d = NoDeferred THEN Ref(id, "c") ELSE d
  IN /\ transitioning' = [transitioning EXCEPT ![n] = TRUE]
     /\ complete' = [complete EXCEPT ![n] = ref]
     /\ agenda' = << Op("handler", id, "", "", "") >> \o rest
     /\ att' = Sweep(Append(att, NewLeaf(n, s, ref)))
     /\ hlog' = IF keep THEN Append(hlog, <<n, s>>) ELSE hlog
     /\ UNCHANGED current

\* node.to(sceneName, args, deferred): this.to is children_to for a node
\* built with scenes and leaf_to otherwise.
DoTo ==
  /\ Running /\ Top.op = "to"
  /\ LET d == IF Top.d = "c" THEN NoDeferred ELSE Ref(Top.a, Top.d)
     IN IF IsLeaf(Top.n)
          THEN leaf_to(Top.n, Top.s, d, Rest)
          ELSE children_to(Top.n, Top.s, d, Rest)
  /\ NoCall /\ UNCHANGED <<keep, budget, busvars, ctxvars, started>>

\* The scene an event is scoped to: isExit ? fromScene : toScene, "" when
\* there is none.
EventScene(a, dir) ==
  LET sc == IF dir = "from" THEN att[a].from ELSE att[a].to
  IN IF sc = Undefined THEN "" ELSE sc

\* The events one publish(name, isExit) of children_to puts on the bus.
Published(a, name, dir) ==
  << [ev |-> name, ns |-> ""] >>
  \o (IF name # "start" \/ name # "end"
        THEN << [ev |-> name, ns |-> EventScene(a, dir)] >>
        ELSE << >>)

\* publish with no subscriber that calls back into the storyboard.
DoPublish ==
  /\ Running /\ Top.op = "publish"
  /\ agenda' = Rest
  /\ UNCHANGED <<current, transitioning, complete, hlog, keep, budget, busvars, ctxvars, started>>
  /\ att' = Sweep([att EXCEPT ![Top.a].ev = @ \o Published(Top.a, Top.s, Top.d)])
  /\ NoCall

\* publish with a subscriber that calls transitionTo on the node.
SubscriberTransitionTo(s) ==
  /\ Running /\ Top.op = "publish" /\ CanCall
  /\ agenda' = << Op("to", 0, att[Top.a].node, s, "c") >> \o Rest
  /\ UNCHANGED <<current, transitioning, complete, hlog, keep, budget, busvars, ctxvars, started>>
  /\ att' = Sweep([att EXCEPT ![Top.a].ev = @ \o Published(Top.a, Top.s, Top.d)])
  /\ LogCall(Call("subscriber", att[Top.a].node, s, Len(att) + 1, ""))

\* this._transitioning = true, then the exit phase is started: the scene
\* being left is asked to exit, or exitComplete is resolved on the spot.
DoSetTransitioning ==
  /\ Running /\ Top.op = "set_transitioning"
  /\ UNCHANGED <<current, complete, hlog, keep, budget, busvars, ctxvars, started>>
  /\ LET a == Top.a
     IN /\ transitioning' = [transitioning EXCEPT ![att[a].node] = TRUE]
        /\ IF att[a].from # Undefined
             THEN /\ agenda' = << Op("to", a, child(att[a].node, att[a].from),
                                     "exit", "e"),
                                  Op("reg_exit", a, "", "", ""),
                                  Op("reg_enter", a, "", "", "") >> \o Rest
                  /\ att' = Sweep(att)
             ELSE /\ agenda' = << Op("reg_exit", a, "", "", ""),
                                  Op("reg_enter", a, "", "", "") >> \o Rest
                  /\ att' = Sweep(Settle(att, Ref(a, "e"), "resolved"))
  /\ NoCall

\* exitComplete.done(...) and _.when(exitComplete).then(...).fail(bailout):
\* callbacks registered on a settled deferred run at once.
DoRegExit ==
  /\ Running /\ Top.op = "reg_exit"
  /\ UNCHANGED <<current, transitioning, complete, hlog, keep, budget, busvars, ctxvars, started>>
  /\ LET a == Top.a
     IN /\ agenda' = (IF att[a].e = "resolved" THEN ExitDoneOps(att, a)
                      ELSE IF att[a].e = "rejected" THEN BailoutOps(a)
                      ELSE << >>) \o Rest
        /\ att' = Sweep([att EXCEPT ![a].eReg = TRUE])
  /\ NoCall

\* enterComplete.then(success).fail(bailout)
DoRegEnter ==
  /\ Running /\ Top.op = "reg_enter"
  /\ UNCHANGED <<current, transitioning, complete, hlog, keep, budget, busvars, ctxvars, started>>
  /\ LET a == Top.a
     IN /\ agenda' = (IF att[a].n = "resolved" THEN SuccessOps(a)
                      ELSE IF att[a].n = "rejected" THEN BailoutOps(a)
                      ELSE << >>) \o Rest
        /\ att' = Sweep([att EXCEPT ![a].nReg = TRUE])
  /\ NoCall

\* bailout without the restore of this._current.
bailoutNoRestore(a) ==
  /\ transitioning' = [transitioning EXCEPT ![att[a].node] = FALSE]
  /\ current' = current

\* success without the assignment of this._current.
successNoCurrent(a) ==
  /\ transitioning' = [transitioning EXCEPT ![att[a].node] = FALSE]
  /\ current' = current

\* success: this._transitioning = false; this._current = toScene
success(a) ==
  /\ transitioning' = [transitioning EXCEPT ![att[a].node] = FALSE]
  /\ current' = [current EXCEPT ![att[a].node] = att[a].to]

\* bailout: this._transitioning = false; this._current = fromScene
bailout(a) ==
  /\ transitioning' = [transitioning EXCEPT ![att[a].node] = FALSE]
  /\ current' = [current EXCEPT ![att[a].node] = att[a].from]

DoSuccess ==
  /\ Running /\ Top.op = "success_set"
  /\ success(Top.a)
  /\ agenda' = Rest
  /\ UNCHANGED <<complete, hlog, keep, budget, busvars, ctxvars, started>>
  /\ att' = Sweep(att)
  /\ NoCall

DoBailout ==
  /\ Running /\ Top.op = "bail_set"
  /\ bailout(Top.a)
  /\ agenda' = Rest
  /\ UNCHANGED <<complete, hlog, keep, budget, busvars, ctxvars, started>>
  /\ att' = Sweep(att)
  /\ NoCall

\* complete.resolve() / complete.reject(), the last statement of success
\* and of bailout.
DoSettle ==
  /\ Running /\ Top.op = "settle"
  /\ UNCHANGED <<current, transitioning, complete, hlog, keep, budget, busvars, ctxvars>>
  /\ LET a == Top.a
         A == [att EXCEPT ![a].ph = IF Top.s = "resolved" THEN "done" ELSE "failed"]
     IN /\ agenda' = Fired(A, att[a].ref, Top.s) \o Rest
        /\ att' = Sweep(Settle(A, att[a].ref, Top.s))
        /\ started' = IF Top.s = "resolved" /\ DState(att, att[a].ref) = "pending"
                        THEN started \cup {att[a].node} ELSE started
  /\ NoCall

----------------------------------------------------------------------------
(* leaf_to and wrap *)

\* wrap, synchronous handler: result !== false
SyncPass(v) == v # "false"

\* The capability testing truthiness instead of comparing with false.
AsyncPassTruthy(v) == v = "true"

\* wrap, the completion capability returned by this.async(): pass !== false
AsyncPass(v) == v # "false"

\* The callbacks leaf_to puts on handlerComplete.  done: the flag is
\* cleared, this._current = sceneName, complete.resolve(); fail: the flag is
\* cleared, complete.reject().
handlerComplete(a, pass, rest) ==
  LET n == att[a].node
      o == IF pass THEN "resolved" ELSE "rejected"
      A == [att EXCEPT ![a].h = o, ![a].ph = IF pass THEN "done" ELSE "failed"]
  IN IF att[a].h # "pending"
       THEN /\ agenda' = rest
            /\ UNCHANGED <<current, transitioning>>
            /\ att' = Sweep(att)
       ELSE /\ transitioning' = [transitioning EXCEPT ![n] = FALSE]
            /\ current' = IF pass THEN [current EXCEPT ![n] = att[a].to] ELSE current
            /\ agenda' = Fired(A, att[a].ref, o) \o rest
            /\ att' = Sweep(Settle(A, att[a].ref, o))

\* The raw handler returns v without having asked for this.async(); the
\* pass-through function returns true.
HandlerReturn(v) ==
  /\ Running /\ Top.op = "handler"
  /\ att[Top.a].node \in PassThrough => v = "true"
  /\ agenda' = << Op("wrap_return", Top.a, "", v, "") >> \o Rest
  /\ UNCHANGED <<current, transitioning, complete, att, hlog, keep, budget, busvars, ctxvars, started>>
  /\ NoCall

\* The raw handler takes the completion capability and returns: the
\* wrapper hands back the pending promise.
HandlerAsync ==
  /\ Running /\ Top.op = "handler"
  /\ att[Top.a].node \notin PassThrough
  /\ agenda' = Rest
  /\ UNCHANGED <<current, transitioning, complete, hlog, keep, budget, busvars, ctxvars, started>>
  /\ att' = Sweep([att EXCEPT ![Top.a].async = TRUE])
  /\ NoCall

\* The raw handler calls transitionTo on the owning storyboard while it runs.
HandlerTransitionTo(n, s) ==
  /\ Running /\ Top.op = "handler" /\ CanCall
  /\ att[Top.a].node \notin PassThrough
  /\ agenda' = << Op("to", 0, n, s, "c") >> \o agenda
  /\ UNCHANGED <<current, transitioning, complete, att, hlog, keep, budget, busvars, ctxvars, started>>
  /\ LogCall(Call("handler", n, s, Len(att) + 1, ""))

\* wrappedFunc after func.apply: not async, the result settles the deferred.
DoWrapReturn ==
  /\ Running /\ Top.op = "wrap_return"
  /\ UNCHANGED <<complete, hlog, keep, budget, busvars, ctxvars, started>>
  /\ handlerComplete(Top.a, SyncPass(Top.s), Rest)
  /\ NoCall

\* A handler that declared itself asynchronous calls its capability with v.
Signal(a, v) ==
  /\ ~Running
  /\ a \in 1..Len(att) /\ att[a].async /\ att[a].h = "pending"
  /\ agenda' = << Op("done", a, "", v, "") >>
  /\ UNCHANGED <<current, transitioning, complete, att, hlog, keep, budget, busvars, ctxvars, started>>
  /\ NoCall

DoAsyncDone ==
  /\ Running /\ Top.op = "done"
  /\ UNCHANGED <<complete, hlog, keep, budget, busvars, ctxvars, started>>
  /\ handlerComplete(Top.a, AsyncPass(Top.s), Rest)
  /\ NoCall

----------------------------------------------------------------------------
(* The API as callers use it *)

TransitionTo(n, s) ==
  /\ ~Running /\ CanCall
  /\ agenda' = << Op("to", 0, n, s, "c") >>
  /\ LogCall(Call("transitionTo", n, s, Len(att) + 1, ""))
  /\ UNCHANGED <<current, transitioning, complete, att, hlog, keep, budget, busvars, ctxvars, started>>

\* start: an already resolved deferred once _current is defined, else
\* this.to(this._initial).
start(n) ==
  IF current[n] # Undefined
    THEN /\ LogCall(Call("start", n, initial(n), 0, "resolved"))
         /\ UNCHANGED agenda
    ELSE /\ LogCall(Call("start", n, initial(n), Len(att) + 1, ""))
         /\ agenda' = << Op("to", 0, n, initial(n), "c") >>

Start(n) ==
  /\ ~Running /\ CanCall
  /\ start(n)
  /\ UNCHANGED <<current, transitioning, complete, att, hlog, keep, budget, busvars, ctxvars, started>>

\* cancelTransition: this._complete.reject(); this._transitioning = false.
\* Before any transition this._complete is undefined and the call throws.
cancelTransition(n) ==
  IF complete[n] = NoDeferred
    THEN UNCHANGED <<att, agenda>>
    ELSE /\ agenda' = Fired(att, complete[n], "rejected")
                        \o << Op("clear_transitioning", 0, n, "", "") >>
         /\ att' = Sweep(Settle(att, complete[n], "rejected"))

CancelTransition(n) ==
  /\ ~Running /\ CanCall
  /\ UNCHANGED <<current, transitioning, complete, hlog, keep, budget, busvars, ctxvars, started>>
  /\ cancelTransition(n)
  /\ LogCall(Call("cancelTransition", n, "", 0, ""))

\* publish with a subscriber that calls cancelTransition on the node.
SubscriberCancelTransition ==
  /\ Running /\ Top.op = "publish" /\ CanCall
  /\ UNCHANGED <<current, transitioning, complete, hlog, keep, budget, busvars, ctxvars, started>>
  /\ LET n == att[Top.a].node
         A == [att EXCEPT ![Top.a].ev = @ \o Published(Top.a, Top.s, Top.d)]
     IN /\ agenda' = Fired(A, complete[n], "rejected")
                        \o << Op("clear_transitioning", 0, n, "", "") >>
                        \o Rest
        /\ att' = Sweep(Settle(A, complete[n], "rejected"))
        /\ LogCall(Call("subscriberCancel", n, "", 0, ""))

DoClearTransitioning ==
  /\ Running /\ Top.op = "clear_transitioning"
  /\ transitioning' = [transitioning EXCEPT ![Top.n] = FALSE]
  /\ agenda' = Rest
  /\ UNCHANGED <<current, complete, hlog, keep, budget, busvars, ctxvars, started>>
  /\ att' = Sweep(att)
  /\ NoCall

----------------------------------------------------------------------------

Next ==
  \/ \E s \in Flat \cup {Missing} : TransitionTo("root", s)
  \/ Start("root")
  \/ CancelTransition("root")
  \/ \E a \in 1..Len(att), v \in Values : Signal(a, v)
  \/ DoTo
  \/ DoPublish
  \/ \E s \in Flat : SubscriberTransitionTo(s)
  \/ SubscriberCancelTransition
  \/ DoSetTransitioning
  \/ DoRegExit
  \/ DoRegEnter
  \/ DoSuccess
  \/ DoBailout
  \/ DoSettle
  \/ \E v \in Values : HandlerReturn(v)
  \/ HandlerAsync
  \/ \E s \in Flat : HandlerTransitionTo("root", s)
  \/ DoWrapReturn
  \/ DoAsyncDone
  \/ DoClearTransitioning

Spec == Init /\ [][Next]_vars

\* The storyboard driven by its callers alone (no handler or subscriber
\* calls back into it), with the whole history kept.
InitTrace ==
  /\ current = [n \in Nodes |-> Undefined]
  /\ transitioning = [n \in Nodes |-> FALSE]
  /\ complete = [n \in Nodes |-> NoDeferred]
  /\ att = <<>>
  /\ agenda = <<>>
  /\ ncalls = 0
  /\ last = Call("", "", "", 0, "")
  /\ keep = TRUE
  /\ budget = MaxCalls
  /\ started = {}
  /\ hlog = <<>>
  /\ calls = <<>>
  /\ InitBus
  /\ Constructed

NextTrace ==
  \/ \E s \in Flat \cup {Missing} : TransitionTo("root", s)
  \/ Start("root")
  \/ CancelTransition("root")
  \/ \E a \in 1..Len(att), v \in Values : Signal(a, v)
  \/ DoTo
  \/ DoPublish
  \/ DoSetTransitioning
  \/ DoRegExit
  \/ DoRegEnter
  \/ DoSuccess
  \/ DoBailout
  \/ DoSettle
  \/ \E v \in Values : HandlerReturn(v)
  \/ HandlerAsync
  \/ DoWrapReturn
  \/ DoAsyncDone
  \/ DoClearTransitioning

SpecTrace == InitTrace /\ [][NextTrace]_vars

----------------------------------------------------------------------------
(* The storyboard driven through its composite child *)

\* The scenes callers ask root for: the leaf B and the composite C.
Deep == {"B", "C"}

\* What handlers answer with here: success or failure.
PassFail == {"true", "false"}

\* Callers drive root between B and C and cancel on root or on C; the whole
\* history is kept.
NextTree ==
  \/ \E s \in Deep : TransitionTo("root", s)
  \/ \E n \in Composites : CancelTransition(n)
  \/ \E a \in 1..Len(att), v \in PassFail : Signal(a, v)
  \/ DoTo
  \/ DoPublish
  \/ DoSetTransitioning
  \/ DoRegExit
  \/ DoRegEnter
  \/ DoSuccess
  \/ DoBailout
  \/ DoSettle
  \/ \E v \in PassFail : HandlerReturn(v)
  \/ HandlerAsync
  \/ DoWrapReturn
  \/ DoAsyncDone
  \/ DoClearTransitioning

InitTree ==
  /\ current = [n \in Nodes |-> Undefined]
  /\ transitioning = [n \in Nodes |-> FALSE]
  /\ complete = [n \in Nodes |-> NoDeferred]
  /\ att = <<>>
  /\ agenda = <<>>
  /\ ncalls = 0
  /\ last = Call("", "", "", 0, "")
  /\ keep = TRUE
  /\ budget = MaxTreeCalls
  /\ started = {}
  /\ hlog = <<>>
  /\ calls = <<>>
  /\ InitBus
  /\ Constructed

SpecTree == InitTree /\ [][NextTree]_vars

\* The same callers, and subscribers of the lifecycle events that cancel
\* the transition they are told about.
NextLive ==
  \/ NextTree
  \/ SubscriberCancelTransition

\* The running call goes on to its end (JavaScript runs a call to
\* completion).
RunToCompletion == Running /\ NextLive

\* A handler that declared itself asynchronous calls its capability.
SomeSignal == \E a \in 1..Len(att), v \in PassFail : Signal(a, v)

\* The storyboard with calls that run to completion and asynchronous
\* handlers that do signal.
SpecLive ==
  /\ InitTrace /\ [][NextLive]_vars
  /\ WF_vars(RunToCompletion)
  /\ WF_vars(SomeSignal)

----------------------------------------------------------------------------
(* Miso.Events *)

\* `var position` when no entry made subscribe assign it.
NoPosition == -1

\* subscribe, the scan: the index (from 0) of the first entry whose
\* priority is <= the new one's.
position(L, p) ==
  LET S == {i \in 1..Len(L) : L[i].priority <= p}
  IN IF S = {} THEN NoPosition
     ELSE (CHOOSE i \in S : \A j \in S : i <= j) - 1

\* Array.prototype.splice(at, 0, x): an undefined index counts as 0.
splice(L, at, x) ==
  LET k == IF at = NoPosition THEN 0 ELSE at
  IN SubSeq(L, 1, k) \o << x >> \o SubSeq(L, k + 1, Len(L))

subscribe(L, sub) == splice(L, position(L, sub.priority), sub)

\* unsubscribe that drops every subscription whatever the identifier.
unsubscribeAll(L, ident) == << >>

\* unsubscribe: _.reject by callback for a function, by token for a
\* string, and the empty list for any other identifier.
unsubscribe(L, ident) ==
  IF ident.kind = "function"
    THEN SelectSeq(L, LAMBDA b : b.callback # ident.fn)
  ELSE IF ident.kind = "string"
    THEN SelectSeq(L, LAMBDA b : b.token # ident.tok)
  ELSE << >>

Publishing == pub # << >>

\* subscribe(name, f, { priority: p, token: t }); t = "" is no token
\* given.  seq is history: the rank of the call among the subscriptions.
Subscribe(name, f, p, t) ==
  /\ ~Publishing /\ Len(ran) < MaxSubs
  /\ LET sub == [callback |-> Fn(f, 0), priority |-> p,
                 token |-> IF t = "" THEN Tok(uid + 1, "") ELSE Tok(0, t),
                 seq |-> Len(ran) + 1]
     IN events' = [events EXCEPT ![name] = subscribe(@, sub)]
  /\ uid' = IF t = "" THEN uid + 1 ELSE uid
  /\ ran' = Append(ran, 0)
  /\ bcall' = BusCall("", "", NoIdent)
  /\ fired' = << >>
  /\ UNCHANGED <<pub, sbvars, ctxvars>>

\* subscribeOnce(name, f): a token is drawn for the closure, and subscribe
\* is called with the closure as callback and the bus object as options,
\* so the priority is 0 and the subscription's token is a second fresh one.
SubscribeOnce(name, f) ==
  /\ ~Publishing /\ Len(ran) < MaxSubs
  /\ LET sub == [callback |-> Fn(f, uid + 1), priority |-> 0,
                 token |-> Tok(uid + 2, ""), seq |-> Len(ran) + 1]
     IN events' = [events EXCEPT ![name] = subscribe(@, sub)]
  /\ uid' = uid + 2
  /\ ran' = Append(ran, 0)
  /\ bcall' = BusCall("", "", NoIdent)
  /\ fired' = << >>
  /\ UNCHANGED <<pub, sbvars, ctxvars>>

\* unsubscribe(name, identifier) by a caller.
Unsubscribe(name, ident) ==
  /\ ~Publishing
  /\ events' = [events EXCEPT ![name] = unsubscribe(@, ident)]
  /\ bcall' = BusCall("unsubscribe", name, ident)
  /\ fired' = << >>
  /\ UNCHANGED <<pub, uid, ran, sbvars, ctxvars>>

\* A publish call: _.each walks the array this._events[name] refers to
\* when the call starts.
Frame(name) == [name |-> name, subs |-> events[name], i |-> 1, top |-> ~Publishing]

\* publish(name) by a caller.
Publish(name) ==
  /\ ~Publishing
  /\ pub' = << Frame(name) >>
  /\ fired' = << >>
  /\ bcall' = BusCall("", "", NoIdent)
  /\ UNCHANGED <<events, uid, ran, sbvars, ctxvars>>

\* The subscription the innermost publish invokes next.
Cur == Head(pub).subs[Head(pub).i]

Invoking == Publishing /\ Head(pub).i <= Len(Head(pub).subs)

\* subscription.callback.apply(...): a subscribeOnce closure first calls
\* this.unsubscribe(name, { token : token }), an identifier that is neither
\* a function nor a string, and then the caller's function.
invoke ==
  /\ events' = IF Cur.callback.id # 0
                 THEN [events EXCEPT ![Head(pub).name] =
                         unsubscribe(@, Ident("object", Fn("", 0),
                                              Tok(Cur.callback.id, "")))]
                 ELSE events
  /\ ran' = IF Cur.callback.id # 0 THEN [ran EXCEPT ![Cur.seq] = @ + 1] ELSE ran
  /\ fired' = IF Head(pub).top THEN Append(fired, Cur) ELSE fired

\* The callback runs and returns.
InvokeReturn ==
  /\ Invoking
  /\ invoke
  /\ pub' = << [Head(pub) EXCEPT !.i = @ + 1] >> \o Tail(pub)
  /\ UNCHANGED <<uid, bcall, sbvars, ctxvars>>

\* The callback publishes its own event again while it runs.
InvokePublish ==
  /\ Invoking /\ Len(pub) <= MaxNested
  /\ invoke
  /\ pub' = << [name |-> Head(pub).name, subs |-> events'[Head(pub).name],
                i |-> 1, top |-> FALSE],
               [Head(pub) EXCEPT !.i = @ + 1] >> \o Tail(pub)
  /\ UNCHANGED <<uid, bcall, sbvars, ctxvars>>

\* _.each is through: publish returns.
PublishReturn ==
  /\ Publishing /\ ~Invoking
  /\ pub' = Tail(pub)
  /\ UNCHANGED <<events, uid, fired, ran, bcall, sbvars, ctxvars>>

\* The tokens and callbacks a caller can hold for name: those of its
\* subscriptions, and the ones it supplied.
Idents(name) ==
  {NoIdent}
  \cup {Ident("function", Fn(f, 0), Tok(0, "")) : f \in Funcs}
  \cup {Ident("string", Fn("", 0), events[name][i].token) :
          i \in 1..Len(events[name])}

\* The subscribe calls made: any callback at any priority on "e" with a
\* generated token, and X with the caller's token "k" on either name.
SubscribeArgs ==
  ({"e"} \X Funcs \X Priorities \X {""})
  \cup (Names \X {"X"} \X {5} \X {"k"})

InitEvents ==
  /\ current = [n \in Nodes |-> Undefined]
  /\ transitioning = [n \in Nodes |-> FALSE]
  /\ complete = [n \in Nodes |-> NoDeferred]
  /\ att = <<>>
  /\ agenda = <<>>
  /\ ncalls = 0
  /\ last = Call("", "", "", 0, "")
  /\ keep = FALSE
  /\ budget = MaxCalls
  /\ started = {}
  /\ hlog = <<>>
  /\ calls = <<>>
  /\ InitBus
  /\ Constructed

NextEvents ==
  \/ \E a \in SubscribeArgs : Subscribe(a[1], a[2], a[3], a[4])
  \/ \E f \in Funcs : SubscribeOnce("e", f)
  \/ \E name \in Names : \E ident \in Idents(name) : Unsubscribe(name, ident)
  \/ \E name \in Names : Publish(name)
  \/ InvokeReturn
  \/ InvokePublish
  \/ PublishReturn

SpecEvents == InitEvents /\ [][NextEvents]_vars

----------------------------------------------------------------------------
(* Construction: the constructor, _buildScenes and attach *)

\* The entries of options.scenes in the order _.each visits them: the
\* caller's, then the "enter" and "exit" the constructor added.
sceneSeq(n) ==
  IF n = "root" THEN << "A", "B", "C" >>
  ELSE IF n = "C" THEN << "x", "enter", "exit" >>
  ELSE << >>

BuildOp(o, n, parent) == [op |-> o, n |-> n, parent |-> parent]

\* _buildScenes: each scene is constructed, then attached.
buildScenes(n) ==
  LET RECURSIVE From(_)
      From(k) ==
        IF k > Len(sceneSeq(n)) THEN << >>
        ELSE << BuildOp("new", child(n, sceneSeq(n)[k]), n),
                BuildOp("attach", child(n, sceneSeq(n)[k]), n) >> \o From(k + 1)
  IN From(1)

\* attach, the loop: scene.attach(scene.name, this) for each scene.
attachScenes(n) ==
  [k \in 1..Len(sceneSeq(n)) |-> BuildOp("attach", child(n, sceneSeq(n)[k]), n)]

\* attach: parent._context && (parent._context._id !== parent._id); an
\* explicit context is not the node, the default one is.
inherits(n, parent) == context[parent] # parent

\* new Miso.Storyboard(options): this._context = options.context || this,
\* then the scenes are built.
Construct ==
  /\ build # << >> /\ Head(build).op = "new"
  /\ LET n == Head(build).n
     IN /\ context' = [context EXCEPT ![n] =
                         IF optcontext[n] # Undefined THEN optcontext[n] ELSE n]
        /\ build' = buildScenes(n) \o Tail(build)
  /\ UNCHANGED <<optcontext, sbvars, busvars>>

\* scene.attach(name, parent)
Attach ==
  /\ build # << >> /\ Head(build).op = "attach"
  /\ LET n == Head(build).n
         parent == Head(build).parent
     IN IF inherits(n, parent)
          THEN /\ context' = [context EXCEPT ![n] = context[parent]]
               /\ build' = attachScenes(n) \o Tail(build)
          ELSE /\ context' = context
               /\ build' = Tail(build)
  /\ UNCHANGED <<optcontext, sbvars, busvars>>

\* new Miso.Storyboard(spec) is called, each of the caller's scenes with or
\* without a context of its own.
InitContext ==
  /\ current = [n \in Nodes |-> Undefined]
  /\ transitioning = [n \in Nodes |-> FALSE]
  /\ complete = [n \in Nodes |-> NoDeferred]
  /\ att = <<>>
  /\ agenda = <<>>
  /\ ncalls = 0
  /\ last = Call("", "", "", 0, "")
  /\ keep = FALSE
  /\ budget = MaxCalls
  /\ started = {}
  /\ hlog = <<>>
  /\ calls = <<>>
  /\ InitBus
  /\ optcontext \in [Nodes -> Contexts \cup {Undefined}]
  /\ \A n \in PassThrough : optcontext[n] = Undefined
  /\ context = [n \in Nodes |-> Undefined]
  /\ build = << BuildOp("new", "root", "") >>

NextContext == Construct \/ Attach

SpecContext == InitContext /\ [][NextContext]_vars

----------------------------------------------------------------------------
(* Properties *)

Composite(i) == i \in 1..Len(att) /\ att[i].node \in Composites

\* The running call is about to execute children_to for an API call
\* transitionTo(name), name an existing scene, on a node in transition.
GuardedCall ==
  /\ Running /\ Top.op = "to" /\ Top.d = "c"
  /\ Top.n \in Composites /\ Top.s \in scenes(Top.n)
  /\ transitioning[Top.n]

\* C1: a transitionTo(name) call, name an existing scene, made on a
\* composite node while it is in transition settles its Outcome failed in
\* that very step, starts no handler and no publish (nothing is added to the
\* running call, no activation other than the call's own is created, no
\* activation's published events change), and leaves currentChildName and
\* the transitioning flags as they were.
C1_ReentrantCallRejected ==
  [][GuardedCall =>
       LET id == Len(att) + 1
       IN /\ Len(att') = id
          /\ att'[id].ph = "rejected"
          /\ DState(att', att'[id].ref) = "rejected"
          /\ att'[id].ev = << >>
          /\ \A i \in 1..Len(att) : att'[i].ev = att[i].ev \/ att'[i] = Collected
          /\ agenda' = Rest
          /\ current' = current
          /\ transitioning' = transitioning]_vars

\* A re-entrant call has been rejected while the node stays in transition.
C1_Witness ==
  \E i \in 1..Len(att) :
    /\ Composite(i) /\ att[i].ph = "rejected" /\ att[i].c = "rejected"
    /\ transitioning[att[i].node]
    /\ \E j \in 1..Len(att) : j < i /\ Composite(j) /\ att[j].ph = "running"

HasPublished(i, name) == \E k \in 1..Len(att[i].ev) : att[i].ev[k].ev = name

C3_CurrentOnlyOnSuccess ==
  (Running /\ Top.op = "success_set")
    => DState(att, att[Top.a].ref) = "pending"

\* C4: after cancelTransition() on a composite node, and until the next
\* API call, no transition still in flight on that node has an unsettled
\* Outcome, and the node is not transitioning.
C4_CancelSettlesInFlight ==
  (~Running /\ last.c = "cancelTransition")
    => /\ ~transitioning[last.n]
       /\ \A a \in 1..Len(att) :
            (Composite(a) /\ att[a].node = last.n /\ att[a].ph = "running")
              => DState(att, att[a].ref) # "pending"

\* The transition requests on node n that passed the re-entrancy guard and
\* whose choreography has not run to its end.
InFlight(n) ==
  {a \in 1..Len(att) : att[a].node = n /\ att[a].ph = "running"}

\* C5: on every composite node at most one transition is in flight.
C5_AtMostOneInFlight ==
  \A n \in Composites : Cardinality(InFlight(n)) <= 1

\* The target's enter has been requested for attempt a: an activation was
\* handed its enterComplete, or enterComplete is settled.
EnterInvoked(a) ==
  \/ att[a].n # "pending"
  \/ \E j \in 1..Len(att) : att[j].ref = Ref(a, "n")

PassedGuard(a) == Composite(a) /\ att[a].ph \in {"running", "done", "failed"}

\* Enter is requested only after the exit phase settled successful (so
\* never after a failed exit).
ExitBeforeEnter ==
  \A a \in 1..Len(att) :
    (PassedGuard(a) /\ EnterInvoked(a)) => att[a].e = "resolved"

\* C6 as claimed: exit, enter, settle in that order; in particular the
\* Outcome of a transition is not settled before its enter phase has
\* settled (or its exit phase has failed).
C6_StrictPhaseOrder ==
  /\ ExitBeforeEnter
  /\ \A a \in 1..Len(att) :
       (PassedGuard(a) /\ DState(att, att[a].ref) # "pending")
         => (att[a].n # "pending" \/ att[a].e = "rejected")

\* C6 amended: enter is requested only after the exit phase settled
\* successful; the transition itself settles its Outcome only at its end,
\* successful after a successful enter phase and failed after a failed
\* exit or enter phase; an Outcome settled while the phases still run has
\* been settled failed (by cancelTransition).
C6_PhaseOrderUnlessCancelled ==
  /\ ExitBeforeEnter
  /\ \A a \in 1..Len(att) :
       PassedGuard(a) =>
         /\ att[a].ph = "done" => att[a].n = "resolved"
         /\ att[a].ph = "failed" => (att[a].e = "rejected" \/ att[a].n = "rejected")
         /\ (att[a].ph = "running" /\ DState(att, att[a].ref) # "pending")
              => DState(att, att[a].ref) = "rejected"

\* A transition away from a scene whose exit settled, whose enter handler
\* is running, and whose Outcome cancelTransition has already settled.
C6_Witness ==
  \E a \in 1..Len(att) :
    /\ PassedGuard(a) /\ att[a].from # Undefined /\ att[a].ph = "running"
    /\ att[a].e = "resolved" /\ att[a].n = "pending"
    /\ DState(att, att[a].ref) = "rejected"
    /\ \E j \in 1..Len(att) : att[j].ref = Ref(a, "n") /\ att[j].h = "pending"

\* The Outcome of API call k, a transition request with its own deferred.
Outcome(k) == att[calls[k].a].c

\* The storyboard was started on A, then asked for B, then for A, nothing
\* else was called, and the three Outcomes settled successful.
RoundTripDone ==
  /\ ~Running /\ Len(calls) = 3
  /\ calls[1].c \in {"start", "transitionTo"} /\ calls[1].s = "A"
  /\ calls[2].c = "transitionTo" /\ calls[2].s = "B"
  /\ calls[3].c = "transitionTo" /\ calls[3].s = "A"
  /\ \A k \in 1..3 : calls[k].n = "root" /\ Outcome(k) = "resolved"

\* C7: from current child A, transitionTo(B) then transitionTo(A), both
\* successful, leave currentChildName = A and have invoked A.exit, B.enter,
\* B.exit, A.enter once each, in that order (after the A.enter that made A
\* the current child).
C7_RoundTrip ==
  RoundTripDone =>
    /\ current["root"] = "A"
    /\ ~transitioning["root"]
    /\ hlog = << <<"A", "enter">>, <<"A", "exit">>, <<"B", "enter">>,
                 <<"B", "exit">>, <<"A", "enter">> >>

C7_Witness == RoundTripDone /\ Len(hlog) = 5 /\ current["root"] = "A"

\* C8: once a composite node has completed a successful transition, a
\* start() call returns an already successful Outcome and changes nothing:
\* no activation, nothing scheduled, currentChildName and transitioning
\* as before.
C8_StartIdempotent ==
  [][(~Running /\ ncalls' = ncalls + 1 /\ last'.c = "start"
        /\ last'.n \in started)
       => (last'.r = "resolved"
             /\ UNCHANGED <<current, transitioning, complete, att, agenda>>)]_vars

\* C9: transitionTo with a name that is not a scene of the node throws and
\* leaves currentChildName, transitioning and the node's pending Outcome
\* handle (this._complete) as they were.
C9_MissingSceneMutatesNothing ==
  [][(Running /\ Top.op = "to" /\ Top.n \in Composites
        /\ Top.s \notin scenes(Top.n))
       => UNCHANGED <<current, transitioning, complete>>]_vars

\* The wrapper is about to settle a leaf request on value v, returned by
\* the handler ("wrap_return") or passed to its capability ("done").
LeafResult ==
  /\ Running /\ Top.op \in {"wrap_return", "done"}
  /\ att[Top.a].h = "pending"

\* C10: a leaf request settles the same way on a value v whether the
\* handler returned v or passed v to its completion capability: its Outcome
\* is failed exactly when v is false, transitioning becomes false, and
\* currentStateName becomes the requested state on success and stays as it
\* was on failure.
C10_LeafSyncAsyncAlike ==
  [][LeafResult =>
       LET a == Top.a
           n == att[a].node
           failed == (Top.s = "false")
       IN /\ DState(att', att[a].ref) = IF failed THEN "rejected" ELSE "resolved"
          /\ transitioning'[n] = FALSE
          /\ current'[n] = IF failed THEN current[n] ELSE att[a].to]_vars

\* A handler has failed synchronously and a handler has failed through its
\* capability, and a handler has succeeded with a value that is not true.
C10_Witness ==
  /\ \E a \in 1..Len(att) :
       IsLeaf(att[a].node) /\ att[a].async /\ att[a].h = "rejected"
  /\ \E a \in 1..Len(att) :
       IsLeaf(att[a].node) /\ ~att[a].async /\ att[a].h = "rejected"
  /\ \E a \in 1..Len(att) :
       IsLeaf(att[a].node) /\ att[a].async /\ att[a].h = "resolved"

\* The lifecycle events attempt a has published, without the namespaced
\* "<scene>:<event>" duplicates.
EvNames(a) ==
  LET P == SelectSeq(att[a].ev, LAMBDA e : e.ns = "")
  IN [k \in 1..Len(P) |-> P[k].ev]

\* What a successful attempt publishes: start, exit (when there was a scene
\* to leave), enter, end.
SuccessSeq(a) ==
  << "start" >> \o (IF att[a].from # Undefined THEN << "exit" >> ELSE << >>)
  \o << "enter", "end" >>

\* C11: a composite transition attempt that passed the re-entrancy guard
\* and has run to its end has published start, exit (only with a previously
\* active child), enter, end in that order when its Outcome settled
\* successful, and has published fail and neither enter nor end when its
\* Outcome settled failed.
C11_EventOrder ==
  \A a \in 1..Len(att) :
    (PassedGuard(a) /\ att[a].ph \in {"done", "failed"}) =>
      /\ DState(att, att[a].ref) = "resolved" => EvNames(a) = SuccessSeq(a)
      /\ DState(att, att[a].ref) = "rejected"
           => /\ HasPublished(a, "fail")
              /\ ~HasPublished(a, "enter")
              /\ ~HasPublished(a, "end")

Sorted(L) == \A i, j \in 1..Len(L) : i < j => L[i].priority >= L[j].priority

\* C12: after any sequence of subscribe and unsubscribe calls the
\* subscription list of every event name is sorted by non-increasing
\* priority, and so is the list a publish walks: it invokes every
\* higher-priority subscriber before every lower-priority one.
C12_SortedByPriority ==
  /\ \A name \in Names : Sorted(events[name])
  /\ \A k \in 1..Len(pub) : Sorted(pub[k].subs)
  /\ Sorted(fired)

\* C13: publish invokes subscribers of equal priority in the order in which
\* they subscribed; subscribing X (priority 5), Y (priority 10), Z
\* (priority 5) and publishing invokes Y, X, Z in that order.
C13_EqualPriorityInSubscribeOrder ==
  \A i, j \in 1..Len(fired) :
    (i < j /\ fired[i].priority = fired[j].priority)
      => fired[i].seq < fired[j].seq

\* C14: the callback given to subscribeOnce runs at most once, whatever is
\* published afterwards, publishes made by running callbacks included.
C14_OnceRunsOnce == \A k \in 1..Len(ran) : ran[k] <= 1

\* C15: when a subscribeOnce subscription fires, every other subscription
\* registered for the event name stays registered.
C15_OnceRemovesOnlyItself ==
  [][(Invoking /\ Cur.callback.id # 0) =>
       LET L == events[Head(pub).name]
       IN \A i \in 1..Len(L) :
            L[i].seq # Cur.seq
              => \E j \in 1..Len(events'[Head(pub).name]) :
                   events'[Head(pub).name][j] = L[i]]_vars

\* C16: unsubscribe(name, token) removes exactly the subscriptions of name
\* carrying the token (exactly one for a token subscribe generated),
\* unsubscribe(name, cb) exactly those whose callback is cb, unsubscribe(name)
\* all of them; the subscriptions left keep their relative order, and the
\* lists of the other names are untouched.
C16_UnsubscribeExact ==
  [][bcall'.op = "unsubscribe" =>
       LET name == bcall'.name
           id == bcall'.ident
           Match(b) == CASE id.kind = "string" -> b.token = id.tok
                         [] id.kind = "function" -> b.callback = id.fn
                         [] OTHER -> TRUE
       IN /\ events'[name] = SelectSeq(events[name], LAMBDA b : ~Match(b))
          /\ (id.kind = "string" /\ id.tok.u # 0)
               => Len(events'[name]) = Len(events[name]) - 1
          /\ \A m \in Names \ {name} : events'[m] = events[m]]_vars

\* unsubscribe by a generated token has taken one of three subscriptions
\* out of a list and left the other two.
C16_Witness ==
  /\ bcall.op = "unsubscribe" /\ bcall.name = "e"
  /\ bcall.ident.kind = "string" /\ bcall.ident.tok.u # 0
  /\ Len(ran) = 3 /\ Len(events["e"]) = 2 /\ events["f"] = << >>
  /\ \A i \in 1..2 : events["e"][i].token # bcall.ident.tok

\* The parent of a node in the tree.
parentOf(k) == CHOOSE n \in Composites : \E s \in scenes(n) : child(n, s) = k

\* C17: once the tree is constructed, a node constructed with an explicit
\* context has that context as handler receiver, a node without one under a
\* parent whose context is explicit has the parent's, and a node under a
\* parent with the default context has its own (explicit or default).
C17_ContextPropagation ==
  build = << >> =>
    \A k \in Nodes \ {"root"} :
      LET own == IF optcontext[k] # Undefined THEN optcontext[k] ELSE k
      IN /\ optcontext[k] # Undefined => context[k] = optcontext[k]
         /\ (optcontext[k] = Undefined /\ context[parentOf(k)] # parentOf(k))
              => context[k] = context[parentOf(k)]
         /\ context[parentOf(k)] = parentOf(k) => context[k] = own

\* The requests that were handed deferred k of activation a.
Sub(a, k) == {j \in 1..Len(att) : att[j].ref = Ref(a, k)}

\* Attempt a of root entered C: C was asked for its initial scene x with
\* a's enterComplete, that transition of C ran to a successful end, and in
\* it x's enter handler settled successful.
EnteredThroughInitial(a) ==
  \E j \in Sub(a, "n") :
    /\ att[j].node = "C" /\ att[j].to = initial("C") /\ att[j].ph = "done"
    /\ \E l \in Sub(j, "n") :
         /\ att[l].node = child("C", initial("C")) /\ att[l].to = "enter"
         /\ att[l].h = "resolved"

\* Attempt a of root left C: C was asked for "exit" with a's exitComplete,
\* that transition of C ran to a successful end, and in it the exit handler
\* of the scene C was on settled successful.
LeftThroughInner(a) ==
  \E j \in Sub(a, "e") :
    /\ att[j].node = "C" /\ att[j].to = "exit" /\ att[j].ph = "done"
    /\ att[j].from # Undefined
    /\ \E l \in Sub(j, "e") :
         /\ att[l].node = child("C", att[j].from) /\ att[l].to = "exit"
         /\ att[l].h = "resolved"

\* C19: when root transitions to its composite child C, whose initial
\* scene is x, the Outcome settles successful only after C was driven to x
\* and x's enter settled successful (C.currentChildName is x when the
\* Outcome is resolved); when root transitions away from C, the target's
\* enter is requested only after the exit handler of C's active inner scene
\* was invoked and settled successful.
C19_Hierarchical ==
  /\ (Running /\ Top.op = "settle" /\ Top.s = "resolved"
        /\ att[Top.a].node = "root" /\ att[Top.a].to = "C")
       => current["C"] = initial("C")
  /\ \A a \in 1..Len(att) :
       att[a].node = "root" =>
         /\ (att[a].to = "C" /\ att[a].c = "resolved") => EnteredThroughInitial(a)
         /\ (att[a].from = "C" /\ Sub(a, "n") # {}) => LeftThroughInner(a)

\* The requests on node n whose Outcome has not settled.
PendingOn(n) ==
  {a \in 1..Len(att) :
     /\ att[a].node = n /\ att[a].ph \in {"running", "rejected", "done", "failed"}
     /\ DState(att, att[a].ref) = "pending"}

AllSettled == \A n \in Nodes : PendingOn(n) = {}

\* C18: with asynchronous handlers that do signal, the Outcome of every
\* request on a composite or a leaf node eventually settles (the requests
\* being finitely many: again and again none is pending), and whenever no
\* call is running and no request on a node is pending, that node's
\* transitioning flag is false.
C18_EventuallySettles ==
  /\ []<>AllSettled
  /\ [](\A n \in Nodes : (~Running /\ PendingOn(n) = {}) => ~transitioning[n])

NoCancel == \A k \in 1..Len(calls) : calls[k].c # "cancelTransition"

\* C20: without cancelTransition, the child that currentChildName names
\* once the transitions have come to rest is one whose last completed
\* handler was enter, and no leaf scene is asked to exit when its last
\* completed handler was exit already.
C20_HandlersAlternate ==
  NoCancel =>
    /\ \A n \in Composites :
         (~Running /\ AllSettled /\ ~transitioning[n]
            /\ current[n] # Undefined /\ IsLeaf(child(n, current[n])))
           => current[child(n, current[n])] = "enter"
    /\ (Running /\ Top.op = "to" /\ IsLeaf(Top.n) /\ Top.s = "exit")
         => current[Top.n] = "enter"
====
